---- MODULE Spec2Model ----
(***************************************************************************)
(* A model of process_audio.py: the tiered channel combiner                *)
(* (combine_wav_files) and the dataset walkers that call it                *)
(* (process_audio_files, process_turntaking_models,                        *)
(* process_numeric_directories).                                           *)
(*                                                                         *)
(* Audio payloads are sequences of bytes (0..255), exactly what            *)
(* wave.readframes returns and wave.writeframes takes; the audioop         *)
(* routines are operators on those byte sequences.                         *)
(***************************************************************************)
EXTENDS Integers, Sequences, FiniteSets, TLC

VARIABLES
    ffmpeg_installed,   \* environment: "ffmpeg" can be launched
    sox_installed,      \* environment: "sox" can be launched
    pc,                 \* position inside combine_wav_files
    left_file,          \* content of the file at the left_file path
    right_file,         \* content of the file at the right_file path
    output_file,        \* <<directory, n>>: the path <directory>/sample_<n>.wav
    left_data,          \* local left_data of the wave tier
    right_data,         \* local right_data of the wave tier
    ret,                \* "none" while running, then TRUE / FALSE
    attempts,           \* history: the tiers attempted by the current call
    dest,               \* target directories: dest[dir][n] is sample_<n>.wav
    walker,             \* [fn, mode]: the walker that is running and how it
                        \* materializes a sample ("copy", "combine", "none")
    listing,            \* what os.listdir returns for the source directory
    items,              \* the sequence of directory entries the walker loops over
    idx,                \* index in items of the entry being processed
    sample_count,       \* the walker's local sample_count
    wpc,                \* position inside the walker
    hist                \* history: one record per output attempt of the walker

vars == <<ffmpeg_installed, sox_installed, pc, left_file, right_file, output_file,
          left_data, right_data, ret, attempts, dest, walker, listing, items, idx,
          sample_count, wpc, hist>>

combineVars == <<pc, left_file, right_file, output_file, left_data, right_data,
                 ret, attempts>>

walkerVars == <<walker, listing, items, idx, sample_count, wpc, hist>>

envVars == <<ffmpeg_installed, sox_installed>>

----------------------------------------------------------------------------
(* Bounds of the model *)

MaxFrames == 3
MaxDirs == 3

----------------------------------------------------------------------------
(* Files *)

NoFile == [kind |-> "none"]
\* exists on disk and can be read, but is no WAV file
BadFile == [kind |-> "bad"]
\* exists on disk, but opening it for reading fails
Unreadable == [kind |-> "unreadable"]
\* a file just created by open(..., 'wb'): zero bytes
EmptyFile == [kind |-> "empty"]
ExtFile(tool, l, r) == [kind |-> "ext", tool |-> tool, left |-> l, right |-> r]

Wav(c, w, r, d) ==
    [kind |-> "wav", nchannels |-> c, sampwidth |-> w, framerate |-> r, data |-> d]

IsWav(f) == f.kind = "wav"

\* wave.getnframes(): the data chunk's length in whole frames
NFrames(f) == Len(f.data) \div (f.sampwidth * f.nchannels)

----------------------------------------------------------------------------
(* Integer helpers *)

Max(a, b) == IF a >= b THEN a ELSE b

RECURSIVE Gcd(_, _)
Gcd(a, b) == IF b = 0 THEN a ELSE Gcd(b, a % b)

RECURSIVE Pow256(_)
Pow256(k) == IF k = 0 THEN 1 ELSE 256 * Pow256(k - 1)

\* C's conversion of a double to int: truncation toward zero
TruncDiv(a, b) == IF a >= 0 THEN a \div b ELSE -((-a) \div b)

Zeros(n) == [i \in 1..n |-> 0]

----------------------------------------------------------------------------
(* audioop: samples are little-endian two's complement, width bytes each *)

RECURSIVE SignedLE(_, _)
\* the signed value of the little-endian bytes b[1..w]
SignedLE(b, w) ==
    IF w = 1
    THEN (IF b[1] >= 128 THEN b[1] - 256 ELSE b[1])
    ELSE b[1] + 256 * SignedLE(Tail(b), w - 1)

GetSample(data, width, i) ==
    SignedLE(SubSeq(data, (i - 1) * width + 1, i * width), width)

\* the little-endian two's complement bytes of v
PutSample(v, width) == [k \in 1..width |-> (v \div Pow256(k - 1)) % 256]

RECURSIVE Flatten(_)
Flatten(ss) == IF ss = <<>> THEN <<>> ELSE Head(ss) \o Flatten(Tail(ss))

\* audioop_check_parameters / audioop_check_size
WholeSamples(data, width) == Len(data) % width = 0

\* audioop.tomono(fragment, width, 1, 0): the fragment is read as pairs of
\* samples (l, r) and l*1 + r*0 is kept; raises when the fragment is not a
\* whole number of such pairs
TomonoOk(data, width) ==
    WholeSamples(data, width) /\ (Len(data) \div width) % 2 = 0

Tomono(data, width) ==
    Flatten([i \in 1..(Len(data) \div (2 * width)) |->
                PutSample(GetSample(data, width, 2 * i - 1), width)])

\* audioop.tostereo(fragment, width, 1, 1): every sample of the fragment is
\* written twice, once per channel; raises on a ragged fragment
TostereoOk(data, width) == WholeSamples(data, width)

Tostereo(data, width) ==
    Flatten([i \in 1..(Len(data) \div width) |->
                LET s == PutSample(GetSample(data, width, i), width) IN s \o s])

\* audioop.ratecv's output sample: cur_o = (int)((prev*d + cur*(outrate-d)) / outrate)
\* is computed on samples scaled to 32 bits and the result is scaled back by an
\* arithmetic shift.  For width 4 the scale is 1 and the C truncation shows; for
\* narrower samples the shift (a floor) absorbs the truncation, so the result is
\* the floor of the unscaled quotient.
RatecvOut(prev, cur, d, outrate, width) ==
    LET x == prev * d + cur * (outrate - d) IN
    IF width = 4 THEN TruncDiv(x, outrate) ELSE x \div outrate

RECURSIVE RatecvLoop(_, _, _, _, _, _, _, _)
\* the two nested while loops of audioop.ratecv, one channel, state None
RatecvLoop(data, width, k, d, prev, cur, inrate, outrate) ==
    IF d < 0
    THEN IF k > Len(data) \div width
         THEN <<>>
         ELSE RatecvLoop(data, width, k + 1, d + outrate, cur,
                         GetSample(data, width, k), inrate, outrate)
    ELSE PutSample(RatecvOut(prev, cur, d, outrate, width), width)
         \o RatecvLoop(data, width, k, d - inrate, prev, cur, inrate, outrate)

\* audioop.ratecv(fragment, width, 1, inrate, outrate, None)[0]
Ratecv(data, width, inrate, outrate) ==
    LET g == Gcd(inrate, outrate) IN
    RatecvLoop(data, width, 1, -(outrate \div g), 0, 0, inrate \div g, outrate \div g)

----------------------------------------------------------------------------
(* The wave tier of combine_wav_files, lines 93-152 *)

\* lines 125-132: read all frames, reduce to mono when the file is not mono
MonoOk(f) == f.nchannels = 1 \/ TomonoOk(f.data, f.sampwidth)

Mono(f) == IF f.nchannels # 1 THEN Tomono(f.data, f.sampwidth) ELSE f.data

\* lines 134-137: the right channel is converted to the left file's rate
Resample(l, r, rdata) ==
    IF l.framerate # r.framerate
    THEN Ratecv(rdata, r.sampwidth, r.framerate, l.framerate)
    ELSE rdata

\* lines 139-145: the shorter byte string is padded with zero bytes
PadLeft(ldata, rdata) ==
    IF Len(ldata) < Len(rdata) THEN ldata \o Zeros(Len(rdata) - Len(ldata)) ELSE ldata

PadRight(ldata, rdata) ==
    IF Len(rdata) < Len(ldata) THEN rdata \o Zeros(Len(ldata) - Len(rdata)) ELSE rdata

\* line 148: the fragment handed to audioop.tostereo
StereoSource(ldata, rdata) == ldata

\* a slip in lines 117-119: the header takes the right file's rate
OutputHeader_RightRate(l, r) ==
    [nchannels |-> 2, sampwidth |-> l.sampwidth, framerate |-> r.framerate]

\* lines 117-119: the header of the output file
OutputHeader(l, r) == [nchannels |-> 2, sampwidth |-> l.sampwidth, framerate |-> l.framerate]

\* Wave_write.close() on a file nothing was written to: the header alone
HeaderOnly(l, r) ==
    LET h == OutputHeader(l, r) IN Wav(h.nchannels, h.sampwidth, h.framerate, <<>>)

----------------------------------------------------------------------------
(* Input domains *)

Widths == {1, 2, 3, 4}
Channels == {1, 2, 3}
Rates == {8000, 16000}
Patterns == {1, 2}

\* byte k of a payload: a rising ramp 1, 2, 3, ... or a falling one 255, 254, ...
PatternByte(p, k) == IF p = 1 THEN k % 256 ELSE (256 - k) % 256

Payload(p, n) == [k \in 1..n |-> PatternByte(p, k)]

\* the readable WAV files: frames * channels * width bytes of payload
WavFiles ==
    { Wav(c, w, r, Payload(p, n * c * w)) :
        c \in Channels, w \in Widths, r \in Rates, n \in 0..MaxFrames, p \in Patterns }

InputFiles == WavFiles \cup {BadFile}

DirNames == {"main", "moshi"}

EmptyDir == [n \in 1..MaxDirs |-> NoFile]

----------------------------------------------------------------------------
(* combine_wav_files, lines 58-155 *)

Attempt(t, why) == [tier |-> t, result |-> why]

Out == dest[output_file[1]][output_file[2]]

WriteOut(f) == [dest EXCEPT ![output_file[1]][output_file[2]] = f]

\* lines 153-155: the handler of every exception raised inside the try block
Except(t, why) ==
    /\ ret' = FALSE
    /\ pc' = "c_return"
    /\ attempts' = Append(attempts, Attempt(t, why))

\* what line 73 does when ffmpeg exits non-zero (CalledProcessError)
FfmpegNonZero == Except(1, "nonzero")

\* what line 86 does when sox exits non-zero (CalledProcessError)
SoxNonZero == Except(2, "nonzero")

\* line 62 and is_ffmpeg_available, lines 15-20
IsFfmpegAvailable ==
    /\ pc = "c_start"
    /\ IF ffmpeg_installed
       THEN pc' = "c_ffmpeg" /\ attempts' = attempts
       ELSE pc' = "c_sox_probe" /\ attempts' = Append(attempts, Attempt(1, "absent"))
    /\ UNCHANGED <<left_file, right_file, output_file, left_data, right_data, ret,
                   dest>>
    /\ UNCHANGED <<envVars, walkerVars>>

\* a slip in lines 73-75: "return True" is missing after the ffmpeg merge and
\* the call goes on to sox
FfmpegMerge_NoReturn ==
    /\ pc = "c_ffmpeg"
    /\ \/ /\ IsWav(left_file) /\ IsWav(right_file)
          /\ dest' = WriteOut(ExtFile("ffmpeg", left_file, right_file))
          /\ ret' = ret
          /\ pc' = "c_sox_probe"
          /\ attempts' = Append(attempts, Attempt(1, "ok"))
       \/ /\ FfmpegNonZero
          /\ dest' = dest
    /\ UNCHANGED <<left_file, right_file, output_file, left_data, right_data>>
    /\ UNCHANGED <<envVars, walkerVars>>

\* lines 63-75: subprocess.run(ffmpeg ..., check=True).  The tool can exit 0 only
\* on two readable inputs; a run that exits non-zero is taken to leave the output
\* path as it was.
FfmpegMerge ==
    /\ pc = "c_ffmpeg"
    /\ \/ /\ IsWav(left_file) /\ IsWav(right_file)
          /\ dest' = WriteOut(ExtFile("ffmpeg", left_file, right_file))
          /\ ret' = TRUE
          /\ pc' = "c_return"
          /\ attempts' = Append(attempts, Attempt(1, "ok"))
       \/ /\ FfmpegNonZero
          /\ dest' = dest
    /\ UNCHANGED <<left_file, right_file, output_file, left_data, right_data>>
    /\ UNCHANGED <<envVars, walkerVars>>

\* lines 78-79 and 89-90: subprocess.run(sox --version), FileNotFoundError
SoxProbe ==
    /\ pc = "c_sox_probe"
    /\ IF sox_installed
       THEN pc' = "c_sox" /\ attempts' = attempts
       ELSE pc' = "c_wave_open" /\ attempts' = Append(attempts, Attempt(2, "absent"))
    /\ UNCHANGED <<left_file, right_file, output_file, left_data, right_data, ret,
                   dest>>
    /\ UNCHANGED <<envVars, walkerVars>>

\* lines 80-88: subprocess.run(sox -M ..., check=True), as for ffmpeg
SoxMerge ==
    /\ pc = "c_sox"
    /\ \/ /\ IsWav(left_file) /\ IsWav(right_file)
          /\ dest' = WriteOut(ExtFile("sox", left_file, right_file))
          /\ ret' = TRUE
          /\ pc' = "c_return"
          /\ attempts' = Append(attempts, Attempt(2, "ok"))
       \/ /\ SoxNonZero
          /\ dest' = dest
    /\ UNCHANGED <<left_file, right_file, output_file, left_data, right_data>>
    /\ UNCHANGED <<envVars, walkerVars>>

\* lines 93-113: wave.open of both inputs, the parameters, the warnings
WaveOpen ==
    /\ pc = "c_wave_open"
    /\ IF IsWav(left_file) /\ IsWav(right_file)
       THEN pc' = "c_wave_create" /\ UNCHANGED <<ret, attempts>>
       ELSE Except(3, "unreadable")
    /\ UNCHANGED <<left_file, right_file, output_file, left_data, right_data, dest>>
    /\ UNCHANGED <<envVars, walkerVars>>

\* lines 116-119: wave.open(output_file, 'wb') truncates or creates the file
WaveCreate ==
    /\ pc = "c_wave_create"
    /\ dest' = WriteOut(EmptyFile)
    /\ pc' = "c_wave_data"
    /\ UNCHANGED <<left_file, right_file, output_file, left_data, right_data, ret,
                   attempts>>
    /\ UNCHANGED <<envVars, walkerVars>>

\* lines 122-145: readframes, tomono, ratecv, padding.  An audioop.error leaves
\* the with block: Wave_write.close() writes the header, then lines 153-155.
WaveData ==
    /\ pc = "c_wave_data"
    /\ IF MonoOk(left_file) /\ MonoOk(right_file)
       THEN LET l == Mono(left_file)
                r == Resample(left_file, right_file, Mono(right_file))
            IN  /\ left_data' = PadLeft(l, r)
                /\ right_data' = PadRight(l, r)
                /\ pc' = "c_wave_write"
                /\ UNCHANGED <<ret, attempts, dest>>
       ELSE /\ dest' = WriteOut(HeaderOnly(left_file, right_file))
            /\ Except(3, "tomono")
            /\ UNCHANGED <<left_data, right_data>>
    /\ UNCHANGED <<left_file, right_file, output_file>>
    /\ UNCHANGED <<envVars, walkerVars>>

\* a slip in lines 116-152: the output is opened without the with statement
\* and the call returns True before the file is closed
WaveWrite_NotClosed ==
    /\ pc = "c_wave_write"
    /\ ret' = TRUE
    /\ pc' = "c_return"
    /\ attempts' = Append(attempts, Attempt(3, "ok"))
    /\ UNCHANGED <<left_file, right_file, output_file, left_data, right_data, dest>>
    /\ UNCHANGED <<envVars, walkerVars>>

\* lines 147-152: tostereo, writeframes, close of the three files, return True
WaveWrite ==
    /\ pc = "c_wave_write"
    /\ LET h == OutputHeader(left_file, right_file)
           src == StereoSource(left_data, right_data)
       IN  IF TostereoOk(src, h.sampwidth)
           THEN /\ dest' = WriteOut(Wav(h.nchannels, h.sampwidth, h.framerate,
                                        Tostereo(src, h.sampwidth)))
                /\ ret' = TRUE
                /\ pc' = "c_return"
                /\ attempts' = Append(attempts, Attempt(3, "ok"))
           ELSE /\ dest' = WriteOut(HeaderOnly(left_file, right_file))
                /\ Except(3, "tostereo")
    /\ UNCHANGED <<left_file, right_file, output_file, left_data, right_data>>
    /\ UNCHANGED <<envVars, walkerVars>>

NextCombine ==
    \/ IsFfmpegAvailable
    \/ FfmpegMerge
    \/ SoxProbe
    \/ SoxMerge
    \/ WaveOpen
    \/ WaveCreate
    \/ WaveData
    \/ WaveWrite

\* one call combine_wav_files(left, right, "main"/sample_1.wav) on an empty
\* target directory
Init ==
    /\ ffmpeg_installed \in BOOLEAN
    /\ sox_installed \in BOOLEAN
    /\ pc = "c_start"
    /\ left_file \in InputFiles
    /\ right_file \in InputFiles
    /\ output_file = <<"main", 1>>
    /\ left_data = <<>>
    /\ right_data = <<>>
    /\ ret = "none"
    /\ attempts = <<>>
    /\ dest = [d \in DirNames |-> EmptyDir]
    /\ walker = [fn |-> "none", mode |-> "none"]
    /\ listing = <<>>
    /\ items = <<>>
    /\ idx = 0
    /\ sample_count = 1
    /\ wpc = "none"
    /\ hist = <<>>

Next == NextCombine

Spec == Init /\ [][Next]_vars

----------------------------------------------------------------------------
(* Directory entries.  An entry of a source directory is                     *)
(*   [name, isdir, first, second]                                            *)
(* where first and second are the contents of the two files the walker looks *)
(* for inside it (NoFile: missing): the left and right input of a combine,   *)
(* or, for a copy, second is the file that is copied.  In the shared         *)
(* turntaking traversal first is dgslm_output_stereo.wav and second is       *)
(* moshi_out_turn_taking.wav.                                                *)

Entry(name, isdir, first, second) ==
    [name |-> name, isdir |-> isdir, first |-> first, second |-> second]

\* os.path.exists
Exists(f) == f # NoFile

\* extract_sample_id, lines 50-55: <<"uuid", i>> stands for a name of UUID shape
extract_sample_id(name) == IF name[1] = "uuid" THEN name ELSE "None"

DigitChars == {"0", "1", "2", "3", "4", "5", "6", "7", "8", "9"}

DigitValue(ch) ==
    CASE ch = "0" -> 0 [] ch = "1" -> 1 [] ch = "2" -> 2 [] ch = "3" -> 3
      [] ch = "4" -> 4 [] ch = "5" -> 5 [] ch = "6" -> 6 [] ch = "7" -> 7
      [] ch = "8" -> 8 [] ch = "9" -> 9

\* characters of Unicode category No that str.isdigit() accepts and int()
\* rejects; "^2" stands for the one character SUPERSCRIPT TWO
SuperscriptChars == {"^2"}

\* str.isdigit() on a name given as its sequence of characters
isdigit(name) ==
    Len(name) > 0 /\ \A i \in 1..Len(name) : name[i] \in DigitChars \cup SuperscriptChars

\* int(name) raises ValueError on a character that is no decimal digit
IntRaises(name) == \E i \in 1..Len(name) : name[i] \notin DigitChars

RECURSIVE int(_)
\* int(name) for a name of decimal digits
int(name) ==
    IF Len(name) = 0 THEN 0
    ELSE 10 * int(SubSeq(name, 1, Len(name) - 1)) + DigitValue(name[Len(name)])

RECURSIVE SelectEntries(_)
\* line 381: the entries with a numeric name that are directories, in listing order
SelectEntries(es) ==
    IF es = <<>> THEN <<>>
    ELSE IF isdigit(Head(es).name) /\ Head(es).isdir
         THEN <<Head(es)>> \o SelectEntries(Tail(es))
         ELSE SelectEntries(Tail(es))

\* the comparison list.sort(key=int) makes: e goes before x
SortsBefore(e, x) == int(e.name) < int(x.name)

RECURSIVE InsertByInt(_, _)
\* insertion behind every entry that does not sort after e (the sort is stable)
InsertByInt(e, sorted) ==
    IF sorted = <<>> THEN <<e>>
    ELSE IF SortsBefore(e, Head(sorted))
         THEN <<e>> \o sorted
         ELSE <<Head(sorted)>> \o InsertByInt(e, Tail(sorted))

RECURSIVE SortByInt(_)
\* line 384: dir_items.sort(key=int)
SortByInt(es) ==
    IF es = <<>> THEN <<>>
    ELSE InsertByInt(es[Len(es)], SortByInt(SubSeq(es, 1, Len(es) - 1)))

----------------------------------------------------------------------------
(* The walkers *)

Item == items[idx]

\* the target directories a walker writes to
DestDirs(w) == IF w.fn = "process_turntaking_models:dgslm_moshi"
               THEN {"main", "moshi"} ELSE {"main"}

Record(item, dir, n, ok) == [item |-> item, dir |-> dir, n |-> n, ok |-> ok]

\* a slip in lines 199 and 388: the output path does not carry the counter
CallCombine_FixedPath(l, r, dir) ==
    /\ pc' = "c_start"
    /\ left_file' = l
    /\ right_file' = r
    /\ output_file' = <<dir, 1>>
    /\ left_data' = <<>>
    /\ right_data' = <<>>
    /\ ret' = "none"
    /\ attempts' = <<>>
    /\ wpc' = "await"

\* the call combine_wav_files(left, right, <dir>/sample_<sample_count>.wav)
CallCombine(l, r, dir) ==
    /\ pc' = "c_start"
    /\ left_file' = l
    /\ right_file' = r
    /\ output_file' = <<dir, sample_count>>
    /\ left_data' = <<>>
    /\ right_data' = <<>>
    /\ ret' = "none"
    /\ attempts' = <<>>
    /\ wpc' = "await"

\* the call has returned: its frame is dropped
DropFrame ==
    /\ pc' = "idle"
    /\ left_file' = NoFile
    /\ right_file' = NoFile
    /\ output_file' = <<"main", 1>>
    /\ left_data' = <<>>
    /\ right_data' = <<>>
    /\ ret' = "none"
    /\ attempts' = <<>>

\* shutil.copy2(source, <dir>/sample_<n>.wav) raises when the source cannot be read
CopyRaises(f) == f = Unreadable

\* a slip in lines 205, 261, 271, 410: the file is merged again, not copied
Copy2_Remerge(f, dir, n, d) == [d EXCEPT ![dir][n] = ExtFile("ffmpeg", f, f)]

\* shutil.copy2(f, <dir>/sample_<n>.wav) on directory tree d
Copy2(f, dir, n, d) == [d EXCEPT ![dir][n] = f]

\* the counter after a sample that was successfully written
Advance(count, success) == IF success THEN count + 1 ELSE count

\* a slip in lines 276 and 311: the counter advances on success only, as it
\* does in the other walkers
AdvanceTurntaking_OnSuccess(count, success) == IF success THEN count + 1 ELSE count

\* lines 276 and 311: the turntaking loops end every sample with sample_count += 1
AdvanceTurntaking(count, success) == count + 1

\* an uncaught exception leaves the walker and ends the run
Abort ==
    /\ wpc' = "aborted"
    /\ UNCHANGED <<sample_count, idx>>

\* process_audio_files, lines 193-234: one iteration of the loop
AudioFilesStep ==
    /\ walker.fn = "process_audio_files"
    /\ wpc = "loop"
    /\ idx <= Len(items)
    /\ IF ~(Item.isdir /\ extract_sample_id(Item.name) # "None")
       THEN /\ idx' = idx + 1
            /\ UNCHANGED <<combineVars, dest, sample_count, wpc, hist>>
       ELSE IF walker.mode = "copy"
       THEN IF Exists(Item.second)
            THEN IF CopyRaises(Item.second)
                 THEN /\ Abort
                      /\ hist' = Append(hist, Record(idx, "main", sample_count, FALSE))
                      /\ UNCHANGED <<combineVars, dest>>
                 ELSE /\ dest' = Copy2(Item.second, "main", sample_count, dest)
                      /\ sample_count' = Advance(sample_count, TRUE)
                      /\ hist' = Append(hist, Record(idx, "main", sample_count, TRUE))
                      /\ idx' = idx + 1
                      /\ UNCHANGED <<combineVars, wpc>>
            ELSE /\ hist' = Append(hist, Record(idx, "main", sample_count, FALSE))
                 /\ idx' = idx + 1
                 /\ UNCHANGED <<combineVars, dest, sample_count, wpc>>
       ELSE IF walker.mode = "none"
       THEN /\ idx' = idx + 1
            /\ UNCHANGED <<combineVars, dest, sample_count, wpc, hist>>
       ELSE IF Exists(Item.first) /\ Exists(Item.second)
            THEN /\ CallCombine(Item.first, Item.second, "main")
                 /\ UNCHANGED <<dest, sample_count, idx, hist>>
            ELSE /\ hist' = Append(hist, Record(idx, "main", sample_count, FALSE))
                 /\ idx' = idx + 1
                 /\ UNCHANGED <<combineVars, dest, sample_count, wpc>>
    /\ UNCHANGED <<envVars, walker, listing, items>>

\* process_audio_files, lines 224-227: the call returned
AudioFilesReturn ==
    /\ walker.fn = "process_audio_files"
    /\ wpc = "await" /\ pc = "c_return"
    /\ sample_count' = Advance(sample_count, ret)
    /\ hist' = Append(hist, Record(idx, "main", sample_count, ret))
    /\ idx' = idx + 1
    /\ wpc' = "loop"
    /\ DropFrame
    /\ UNCHANGED <<envVars, dest, walker, listing, items>>

\* line 245: target_dgslm_dir
TargetDgslmDir == "main"

\* a slip in line 270: the moshi file is written under target_dgslm_dir
TargetMoshiDir_Dgslm == "main"

\* line 246: target_moshi_dir
TargetMoshiDir == "moshi"

\* process_turntaking_models, lines 252-276: one iteration of the first loop
TurntakingDgslmMoshiStep ==
    /\ walker.fn = "process_turntaking_models:dgslm_moshi"
    /\ wpc = "loop"
    /\ idx <= Len(items)
    /\ IF ~(Item.isdir /\ extract_sample_id(Item.name) # "None")
       THEN /\ idx' = idx + 1
            /\ UNCHANGED <<dest, sample_count, wpc, hist>>
       ELSE LET c1 == Exists(Item.first) /\ ~CopyRaises(Item.first)
                d1 == IF c1 THEN Copy2(Item.first, TargetDgslmDir, sample_count, dest)
                      ELSE dest
                h1 == Append(hist, Record(idx, TargetDgslmDir, sample_count, c1))
                c2 == Exists(Item.second) /\ ~CopyRaises(Item.second)
                d2 == IF c2 THEN Copy2(Item.second, TargetMoshiDir, sample_count, d1)
                      ELSE d1
                h2 == Append(h1, Record(idx, TargetMoshiDir, sample_count, c2))
            IN  IF CopyRaises(Item.first)
                THEN Abort /\ dest' = dest /\ hist' = h1
                ELSE IF CopyRaises(Item.second)
                THEN Abort /\ dest' = d1 /\ hist' = h2
                ELSE /\ dest' = d2
                     /\ hist' = h2
                     /\ sample_count' = AdvanceTurntaking(sample_count, c1 /\ c2)
                     /\ idx' = idx + 1
                     /\ wpc' = wpc
    /\ UNCHANGED <<envVars, combineVars, walker, listing, items>>

\* process_turntaking_models, lines 291-311: one iteration of the second loop
TurntakingFreezeOmniStep ==
    /\ walker.fn = "process_turntaking_models:freeze_omni"
    /\ wpc = "loop"
    /\ idx <= Len(items)
    /\ IF ~(Item.isdir /\ extract_sample_id(Item.name) # "None")
       THEN /\ idx' = idx + 1
            /\ UNCHANGED <<combineVars, sample_count, wpc, hist>>
       ELSE IF Exists(Item.first) /\ Exists(Item.second)
            THEN /\ CallCombine(Item.first, Item.second, "main")
                 /\ UNCHANGED <<sample_count, idx, hist>>
            ELSE /\ hist' = Append(hist, Record(idx, "main", sample_count, FALSE))
                 /\ sample_count' = AdvanceTurntaking(sample_count, FALSE)
                 /\ idx' = idx + 1
                 /\ UNCHANGED <<combineVars, wpc>>
    /\ UNCHANGED <<envVars, dest, walker, listing, items>>

\* process_turntaking_models, lines 302-311: the call returned
TurntakingFreezeOmniReturn ==
    /\ walker.fn = "process_turntaking_models:freeze_omni"
    /\ wpc = "await" /\ pc = "c_return"
    /\ sample_count' = AdvanceTurntaking(sample_count, ret)
    /\ hist' = Append(hist, Record(idx, "main", sample_count, ret))
    /\ idx' = idx + 1
    /\ wpc' = "loop"
    /\ DropFrame
    /\ UNCHANGED <<envVars, dest, walker, listing, items>>

\* process_numeric_directories, lines 378-384: list, filter, sort.  The key
\* function runs on every selected name before anything is reordered; a
\* ValueError it raises is caught nowhere.
NumericListDir ==
    /\ walker.fn = "process_numeric_directories"
    /\ wpc = "start"
    /\ LET dir_items == SelectEntries(listing) IN
       IF \E i \in 1..Len(dir_items) : IntRaises(dir_items[i].name)
       THEN /\ Abort
            /\ items' = items
       ELSE /\ items' = SortByInt(dir_items)
            /\ idx' = 1
            /\ wpc' = "loop"
            /\ sample_count' = sample_count
    /\ UNCHANGED <<envVars, combineVars, dest, walker, listing, hist>>

\* process_numeric_directories, lines 386-414: one iteration of the loop
NumericStep ==
    /\ walker.fn = "process_numeric_directories"
    /\ wpc = "loop"
    /\ idx <= Len(items)
    /\ IF walker.mode = "combine"
       THEN IF Exists(Item.first) /\ Exists(Item.second)
            THEN /\ CallCombine(Item.first, Item.second, "main")
                 /\ UNCHANGED <<dest, sample_count, idx, hist>>
            ELSE /\ hist' = Append(hist, Record(idx, "main", sample_count, FALSE))
                 /\ idx' = idx + 1
                 /\ UNCHANGED <<combineVars, dest, sample_count, wpc>>
       ELSE IF Exists(Item.second)
            THEN IF CopyRaises(Item.second)
                 THEN /\ Abort
                      /\ hist' = Append(hist, Record(idx, "main", sample_count, FALSE))
                      /\ UNCHANGED <<combineVars, dest>>
                 ELSE /\ dest' = Copy2(Item.second, "main", sample_count, dest)
                      /\ sample_count' = Advance(sample_count, TRUE)
                      /\ hist' = Append(hist, Record(idx, "main", sample_count, TRUE))
                      /\ idx' = idx + 1
                      /\ UNCHANGED <<combineVars, wpc>>
            ELSE /\ hist' = Append(hist, Record(idx, "main", sample_count, FALSE))
                 /\ idx' = idx + 1
                 /\ UNCHANGED <<combineVars, dest, sample_count, wpc>>
    /\ UNCHANGED <<envVars, walker, listing, items>>

\* process_numeric_directories, lines 396-400: the call returned
NumericReturn ==
    /\ walker.fn = "process_numeric_directories"
    /\ wpc = "await" /\ pc = "c_return"
    /\ sample_count' = Advance(sample_count, ret)
    /\ hist' = Append(hist, Record(idx, "main", sample_count, ret))
    /\ idx' = idx + 1
    /\ wpc' = "loop"
    /\ DropFrame
    /\ UNCHANGED <<envVars, dest, walker, listing, items>>

\* the for loop has run out of entries
WalkerDone ==
    /\ wpc = "loop"
    /\ idx > Len(items)
    /\ wpc' = "done"
    /\ UNCHANGED <<envVars, combineVars, dest, walker, listing, items, idx,
                   sample_count, hist>>

NextWalk ==
    \/ AudioFilesStep
    \/ AudioFilesReturn
    \/ TurntakingDgslmMoshiStep
    \/ TurntakingFreezeOmniStep
    \/ TurntakingFreezeOmniReturn
    \/ NumericListDir
    \/ NumericStep
    \/ NumericReturn
    \/ WalkerDone
    \/ NextCombine

----------------------------------------------------------------------------
(* Source trees for the walkers *)

LeftWav == Wav(1, 2, 16000, <<1, 2>>)
RightWav == Wav(1, 2, 16000, <<255, 254>>)
\* a right input of another width, longer than LeftWav: the wave tier raises
OddRightWav == Wav(1, 1, 16000, <<255, 254, 253>>)
StereoWav == Wav(2, 2, 16000, <<1, 2, 3, 4>>)
MoshiWav == Wav(2, 2, 16000, <<255, 254, 253, 252>>)

\* <<first, second>> of a sample directory, by the way the walker materializes it
Contents(w) ==
    IF w.fn = "process_turntaking_models:dgslm_moshi"
    THEN {<<StereoWav, MoshiWav>>, <<NoFile, MoshiWav>>, <<StereoWav, NoFile>>,
          <<NoFile, NoFile>>, <<StereoWav, Unreadable>>, <<Unreadable, MoshiWav>>}
    ELSE IF w.mode = "copy"
    THEN {<<NoFile, StereoWav>>, <<NoFile, NoFile>>, <<NoFile, Unreadable>>}
    ELSE {<<LeftWav, RightWav>>, <<LeftWav, NoFile>>, <<NoFile, RightWav>>,
          <<LeftWav, OddRightWav>>, <<LeftWav, BadFile>>}

\* what an entry can be: a sample directory with some contents, a plain file
\* of that name, or "other": in a UUID listing a directory of another name, in
\* a numeric listing a directory that holds neither file
Shapes(w) ==
    { <<"dir", c[1], c[2]>> : c \in Contents(w) }
     \cup {<<"file", NoFile, NoFile>>, <<"other", NoFile, NoFile>>}

\* the entry at position i of a listing of UUID-named samples
UuidEntry(shape, i) ==
    IF shape[1] = "file" THEN Entry(<<"uuid", i>>, FALSE, NoFile, NoFile)
    ELSE IF shape[1] = "other" THEN Entry(<<"other", i>>, TRUE, NoFile, NoFile)
    ELSE Entry(<<"uuid", i>>, TRUE, shape[2], shape[3])

\* the names isdigit() accepts: "2", "02", "10" and superscript two
NumericNames == {<<"2">>, <<"0", "2">>, <<"1", "0">>, <<"^2">>}

\* the entry of a given name in a listing of numeric-named samples
NamedEntry(shape, name) ==
    IF ~isdigit(name) \/ shape[1] = "other" THEN Entry(name, TRUE, NoFile, NoFile)
    ELSE IF shape[1] = "file" THEN Entry(name, FALSE, NoFile, NoFile)
    ELSE Entry(name, TRUE, shape[2], shape[3])

\* a listing of n UUID-named entries of the given shapes
UuidListing(n, sh) == [i \in 1..n |-> UuidEntry(sh[i], i)]

\* a directory holds no two entries of the same name
NameSeqs(n) ==
    { ns \in [1..n -> NumericNames \cup {<<"x">>}] :
        \A i, j \in 1..n : i # j => ns[i] # ns[j] }

\* a listing of n entries of the given names and shapes
NumericListing(n, ns, sh) == [i \in 1..n |-> NamedEntry(sh[i], ns[i])]

Walkers ==
    { [fn |-> "process_audio_files", mode |-> "copy"],
      [fn |-> "process_audio_files", mode |-> "combine"],
      [fn |-> "process_audio_files", mode |-> "none"],
      [fn |-> "process_turntaking_models:dgslm_moshi", mode |-> "copy"],
      [fn |-> "process_turntaking_models:freeze_omni", mode |-> "combine"],
      [fn |-> "process_numeric_directories", mode |-> "copy"],
      [fn |-> "process_numeric_directories", mode |-> "combine"] }

\* one pass of one walker over a source directory, into empty target directories
InitWalk ==
    /\ walker \in Walkers
    /\ ffmpeg_installed \in BOOLEAN
    /\ sox_installed \in BOOLEAN
    /\ ~(ffmpeg_installed /\ sox_installed)
    /\ (walker.mode # "combine" => ~ffmpeg_installed /\ ~sox_installed)
    /\ \E n \in 0..MaxDirs : \E sh \in [1..n -> Shapes(walker)] :
          IF walker.fn = "process_numeric_directories"
          THEN /\ \E ns \in NameSeqs(n) : listing = NumericListing(n, ns, sh)
               /\ items = <<>>
               /\ wpc = "start"
          ELSE /\ listing = UuidListing(n, sh)
               /\ items = listing
               /\ wpc = "loop"
    /\ idx = 1
    /\ sample_count = 1
    /\ hist = <<>>
    /\ dest = [d \in DirNames |-> EmptyDir]
    /\ pc = "idle"
    /\ left_file = NoFile
    /\ right_file = NoFile
    /\ output_file = <<"main", 1>>
    /\ left_data = <<>>
    /\ right_data = <<>>
    /\ ret = "none"
    /\ attempts = <<>>

SpecWalk == InitWalk /\ [][NextWalk]_vars

----------------------------------------------------------------------------
(* Observations on a finished combine call *)

Returned == pc = "c_return"

Tried(t) == \E i \in 1..Len(attempts) : attempts[i].tier = t

Failed(t) == \E i \in 1..Len(attempts) : attempts[i].tier = t /\ attempts[i].result # "ok"

Succeeded(t) == \E i \in 1..Len(attempts) : attempts[i].tier = t /\ attempts[i].result = "ok"

BothMono == IsWav(left_file) /\ IsWav(right_file)
            /\ left_file.nchannels = 1 /\ right_file.nchannels = 1

\* sample i of channel ch (1: left, 2: right) of a two-channel file, as bytes
ChannelSample(f, ch, i) ==
    SubSeq(f.data, (2 * (i - 1) + (ch - 1)) * f.sampwidth + 1,
                   (2 * (i - 1) + ch) * f.sampwidth)

\* sample i of a mono file, as bytes
MonoSample(f, i) == SubSeq(f.data, (i - 1) * f.sampwidth + 1, i * f.sampwidth)

\* the number of frames a linear-interpolation rate conversion of n frames
\* yields: one for the first frame, then outrate/inrate per further frame
ConvertedFrames(n, inrate, outrate) ==
    IF inrate = outrate \/ n = 0 THEN n ELSE ((n - 1) * outrate) \div inrate + 1

----------------------------------------------------------------------------
(* C1: whenever the ffmpeg tier fails (ffmpeg absent, or a non-zero exit),   *)
(* the sox tier is attempted next: a failure of the first tier alone never   *)
(* ends the call.                                                            *)
C1_Tier1FailureFallsThrough ==
    (Returned /\ Failed(1)) =>
        (Len(attempts) >= 2 /\ attempts[1].tier = 1 /\ attempts[2].tier = 2)

(* C2: whenever the sox tier is reached and fails (sox absent, or a non-zero *)
(* exit), the wave tier is attempted, and the call returns False only if the *)
(* wave tier itself failed.                                                  *)
C2_Tier2FailureFallsThrough ==
    (Returned /\ Failed(2)) => (Tried(3) /\ (ret = FALSE => Failed(3)))

(* C3: for mono inputs of equal rate, width and frame count the wave tier    *)
(* writes a two-channel file whose left samples are the left input's samples *)
(* and whose right samples are the right input's samples, frame by frame.    *)
C3_WaveTierInterleavesBothInputs ==
    (Returned /\ Succeeded(3) /\ BothMono
       /\ left_file.framerate = right_file.framerate
       /\ left_file.sampwidth = right_file.sampwidth
       /\ NFrames(left_file) = NFrames(right_file)) =>
        /\ Out.nchannels = 2
        /\ NFrames(Out) = NFrames(left_file)
        /\ \A i \in 1..NFrames(left_file) :
              /\ ChannelSample(Out, 1, i) = MonoSample(left_file, i)
              /\ ChannelSample(Out, 2, i) = MonoSample(right_file, i)

(* C4: after a call that returns False no file exists at the output path     *)
(* that was not there before the call (the target directory starts empty).   *)
C4_FailureLeavesNoFile ==
    (Returned /\ ret = FALSE) => Out = NoFile

(* C7: for readable mono inputs of any widths and frame counts the wave tier *)
(* succeeds and the output has the left input's sample width.                *)
C7_WidthMismatchNeverFails ==
    (Returned /\ Tried(3) /\ BothMono) =>
        (ret = TRUE /\ Out.sampwidth = left_file.sampwidth)

(* C8: for mono inputs the wave tier zero-pads only the end of the shorter   *)
(* stream, by a whole number of that stream's samples, and the output has    *)
(* max(len_left, len_right) frames, lengths counted after rate conversion.   *)
C8_PadsToLongerStream ==
    (Returned /\ Succeeded(3) /\ BothMono) =>
        LET lw == left_file.sampwidth
            rw == right_file.sampwidth
            lbytes == Len(left_file.data)
            lframes == NFrames(left_file)
            rframes == ConvertedFrames(NFrames(right_file), right_file.framerate,
                                       left_file.framerate)
        IN  /\ NFrames(Out) = Max(lframes, rframes)
            /\ (Len(left_data) - lbytes) % lw = 0
            /\ (Len(right_data) - rframes * rw) % rw = 0
            /\ SubSeq(left_data, 1, lbytes) = left_file.data
            /\ \A k \in (lbytes + 1)..Len(left_data) : left_data[k] = 0
            /\ \A k \in (rframes * rw + 1)..Len(right_data) : right_data[k] = 0
            /\ (lframes >= rframes => Len(left_data) = lbytes)
            /\ (rframes >= lframes => Len(right_data) = rframes * rw)

(* C10: for inputs of unequal sample rate the wave tier converts the right   *)
(* stream (after its reduction to mono) to the left stream's rate, leaves    *)
(* the left stream's samples as they were read, and writes the output with   *)
(* the left stream's rate.                                                   *)
C10_OnlyRightIsResampled ==
    (Returned /\ Succeeded(3) /\ left_file.framerate # right_file.framerate) =>
        LET lmono == Mono(left_file)
            lframes == Len(lmono) \div left_file.sampwidth
            rframes == Len(Mono(right_file)) \div right_file.sampwidth
            rbytes == right_file.sampwidth *
                        ConvertedFrames(rframes, right_file.framerate,
                                        left_file.framerate)
        IN  /\ Out.framerate = left_file.framerate
            /\ SubSeq(left_data, 1, Len(lmono)) = lmono
            /\ Len(left_data) = Max(Len(lmono), rbytes)
            /\ Len(right_data) = Max(Len(lmono), rbytes)
            /\ \A i \in 1..lframes :
                  ChannelSample(Out, 1, i) =
                      SubSeq(lmono, (i - 1) * left_file.sampwidth + 1,
                             i * left_file.sampwidth)
            /\ (left_file.nchannels = 1 => lmono = left_file.data)

C10_Witness ==
    /\ Returned /\ Succeeded(3) /\ BothMono
    /\ left_file.framerate # right_file.framerate
    /\ NFrames(left_file) >= 2
    /\ NFrames(right_file) >= 2
    /\ Len(right_data) # Len(right_file.data)

----------------------------------------------------------------------------
(* Observations on a walker's pass *)

\* the samples successfully written into target directory d so far
SuccessCount(d) ==
    Cardinality({i \in 1..Len(hist) : hist[i].dir = d /\ hist[i].ok = TRUE})

\* the numbers n for which sample_<n>.wav exists in target directory d
Present(d) == {n \in 1..MaxDirs : dest[d][n] # NoFile}

(* C5: at the end of a pass in which N samples were materialized, each       *)
(* target directory of the walker holds exactly sample_1.wav .. sample_N.wav *)
(* whatever the number and the positions of the samples that failed.         *)
C5_OutputsNumberedWithoutGaps ==
    wpc = "done" =>
        \A d \in DestDirs(walker) : Present(d) = 1..SuccessCount(d)

(* C6: the counter starts at 1 and has advanced exactly once per sample that *)
(* was successfully written into the target directory; a missing input or a  *)
(* failed combine leaves it unchanged.                                       *)
C6_CounterCountsSuccesses ==
    wpc \in {"loop", "await", "done"} =>
        \A d \in DestDirs(walker) : sample_count = 1 + SuccessCount(d)

(* C9: no failure of a sample ends the pass: the walker never aborts, and it *)
(* ends only when every entry of the traversal has been gone through.        *)
C9_FailuresAreLocal ==
    /\ wpc # "aborted"
    /\ (wpc = "done" => idx = Len(items) + 1)

----------------------------------------------------------------------------
(* C11: a call handled by the wave tier on two readable inputs yields a      *)
(* two-channel output whatever the channel count (>= 1) of either input: a   *)
(* non-mono input is reduced to a mono stream and the call does not fail     *)
(* because of the channel count.  (Inputs of equal sample width: the padding *)
(* then keeps whole samples, so only the reduction to mono can fail.)        *)
C11_AnyChannelCountYieldsStereo ==
    (Returned /\ Tried(3) /\ IsWav(left_file) /\ IsWav(right_file)
       /\ left_file.sampwidth = right_file.sampwidth) =>
        (ret = TRUE /\ IsWav(Out) /\ Out.nchannels = 2)

----------------------------------------------------------------------------
\* a name of decimal digits only
PurelyNumeric(name) == Len(name) > 0 /\ \A i \in 1..Len(name) : name[i] \in DigitChars

(* C12: once process_numeric_directories has listed its source directory,    *)
(* the entries it goes through are exactly the directories of the listing    *)
(* with a purely numeric name, in strictly ascending order of the numeric    *)
(* value of their names, whatever the order of the listing.                  *)
C12_NumericOrderOfTraversal ==
    (walker.fn = "process_numeric_directories" /\ wpc # "start") =>
        /\ \A i, j \in 1..Len(items) :
              i < j => int(items[i].name) < int(items[j].name)
        /\ {items[i] : i \in 1..Len(items)} =
              {listing[k] : k \in {m \in 1..Len(listing) :
                                     PurelyNumeric(listing[m].name) /\ listing[m].isdir}}

----------------------------------------------------------------------------
\* the file of the source sample directory a copying walker takes for an
\* output it recorded
CopySource(h) ==
    IF walker.fn = "process_turntaking_models:dgslm_moshi" /\ h.dir = "main"
    THEN items[h.item].first
    ELSE items[h.item].second

(* C13: in a passthrough walker (one that takes a ready-made file from each  *)
(* sample directory) every output written so far is byte for byte the file   *)
(* of its source sample directory, and combine_wav_files is never called.    *)
C13_PassthroughIsVerbatimCopy ==
    walker.mode = "copy" =>
        /\ pc = "idle" /\ attempts = <<>>
        /\ \A k \in 1..Len(hist) :
              hist[k].ok = TRUE => dest[hist[k].dir][hist[k].n] = CopySource(hist[k])

C13_Witness ==
    /\ walker.fn = "process_turntaking_models:dgslm_moshi"
    /\ wpc = "done"
    /\ SuccessCount("main") >= 2
    /\ \E k \in 1..Len(hist) :
          /\ hist[k].ok = TRUE /\ hist[k].dir = "moshi"
          /\ dest["moshi"][hist[k].n] = MoshiWav
          /\ dest["main"][hist[k].n] = StereoWav

----------------------------------------------------------------------------
\* the file sample_<n>.wav of directory d is open for writing: created, not
\* yet closed
OpenForWriting(d, n) == dest[d][n] = EmptyFile

(* C14: in every walker the write of sample_<n>.wav is complete before the   *)
(* counter advances past n: no output with a number below the counter is     *)
(* open for writing, and the only file that is ever open is the one at the   *)
(* counter's number, while the combine call that writes it is in its wave    *)
(* tier.                                                                     *)
C14_WriteCompleteBeforeCounterAdvances ==
    wpc # "none" =>
        \A d \in DirNames : \A n \in 1..Len(dest[d]) :
            /\ (n < sample_count => ~OpenForWriting(d, n))
            /\ (OpenForWriting(d, n) =>
                    /\ pc \in {"c_wave_data", "c_wave_write"}
                    /\ output_file = <<d, n>>
                    /\ n = sample_count
                    /\ wpc = "await")

C14_Witness ==
    /\ walker.mode = "combine"
    /\ wpc = "await"
    /\ sample_count >= 2
    /\ OpenForWriting("main", sample_count)
    /\ \A n \in 1..(sample_count - 1) :
          IsWav(dest["main"][n]) /\ Len(dest["main"][n].data) > 0

----------------------------------------------------------------------------
\* the tiers attempted so far all failed
AllFailed == \A i \in 1..Len(attempts) : attempts[i].result # "ok"

(* C15: within one call of combine_wav_files the tiers are attempted in the  *)
(* order 1, 2, 3; a tier is attempted only after every earlier tier was      *)
(* attempted and failed; no tier is attempted after one has succeeded, and   *)
(* the call returns True exactly when the last tier attempted succeeded.     *)
C15_TiersInOrderFirstSuccessFinal ==
    pc # "idle" =>
        /\ \A i \in 1..Len(attempts) : attempts[i].tier = i
        /\ \A i \in 1..(Len(attempts) - 1) : attempts[i].result # "ok"
        /\ (pc \in {"c_start", "c_ffmpeg"} => attempts = <<>>)
        /\ (pc \in {"c_sox_probe", "c_sox"} => (Len(attempts) = 1 /\ AllFailed))
        /\ (pc \in {"c_wave_open", "c_wave_create", "c_wave_data", "c_wave_write"} =>
                (Len(attempts) = 2 /\ AllFailed))
        /\ (Returned =>
                /\ Len(attempts) >= 1
                /\ (ret = TRUE <=> attempts[Len(attempts)].result = "ok")
                /\ (ret = FALSE <=> AllFailed))

C15_Witness ==
    /\ Returned /\ ret = TRUE
    /\ Len(attempts) = 3
    /\ Failed(1) /\ Failed(2) /\ Succeeded(3)

----------------------------------------------------------------------------
\* entry i of the traversal is a sample directory the walker has a rule for
Qualifies(i) ==
    /\ walker.mode # "none"
    /\ items[i].isdir
    /\ (walker.fn = "process_numeric_directories"
          \/ extract_sample_id(items[i].name) # "None")

\* the output attempts made for entry i in target directory d
RecordsOf(i, d) == {k \in 1..Len(hist) : hist[k].item = i /\ hist[k].dir = d}

\* the output files written for entry i
OutputsOf(i) == {k \in 1..Len(hist) : hist[k].item = i /\ hist[k].ok = TRUE}

\* every sample directory the traversal has gone past was taken up once, and
\* none it has not reached yet was taken up at all
ConsumedOnce ==
    \A i \in 1..Len(items) :
        /\ (i < idx /\ Qualifies(i) =>
                \A d \in DestDirs(walker) : Cardinality(RecordsOf(i, d)) = 1)
        /\ (i < idx /\ ~Qualifies(i) =>
                \A d \in DirNames : RecordsOf(i, d) = {})
        /\ (i > idx => \A d \in DirNames : RecordsOf(i, d) = {})

(* C16: each sample directory of a traversal is consumed exactly once and    *)
(* produces at most one output file in the pass, in every walker, the shared *)
(* turntaking traversal included.                                            *)
C16_OneOutputPerSample ==
    wpc # "none" =>
        /\ ConsumedOnce
        /\ \A i \in 1..Len(items) : Cardinality(OutputsOf(i)) <= 1

(* C16 as amended: each sample directory of a traversal is consumed exactly  *)
(* once and produces at most one output file in each target directory of     *)
(* the walker; the shared turntaking traversal writes up to two files for    *)
(* one sample directory, one under dGSLM and one under moshi.                *)
C16_OneOutputPerSamplePerDirectory ==
    wpc # "none" =>
        /\ ConsumedOnce
        /\ \A i \in 1..Len(items) : \A d \in DirNames :
              /\ Cardinality(RecordsOf(i, d)) <= 1
              /\ (d \notin DestDirs(walker) => RecordsOf(i, d) = {})
        /\ \A i \in 1..Len(items) :
              Cardinality(OutputsOf(i)) <= Cardinality(DestDirs(walker))

C16_Witness ==
    /\ walker.fn = "process_turntaking_models:dgslm_moshi"
    /\ wpc = "done"
    /\ Len(items) >= 2
    /\ \E i \in 1..Len(items) : Cardinality(OutputsOf(i)) = 2
    /\ \E i \in 1..Len(items) : Qualifies(i) /\ Cardinality(OutputsOf(i)) = 1

----------------------------------------------------------------------------
\* the walkers that advance the counter on success only
CountingWalker == walker.fn \in {"process_audio_files", "process_numeric_directories"}

\* a step writes no path but sample_<sample_count>.wav of the target directory
WritesOnlyAtCounter ==
    \A d \in DirNames : \A n \in 1..Len(dest[d]) :
        dest'[d][n] # dest[d][n] => (d = "main" /\ n = sample_count)

\* the number of an output attempt is the number of the attempt before it,
\* plus one when that attempt succeeded
NumberingFollowsResults ==
    /\ (Len(hist) > 0 => hist[1].n = 1)
    /\ \A k \in 1..(Len(hist) - 1) :
          hist[k + 1].n = (IF hist[k].ok = TRUE THEN hist[k].n + 1 ELSE hist[k].n)
    /\ (Len(hist) > 0 /\ wpc \in {"loop", "await", "done"} =>
          sample_count = (IF hist[Len(hist)].ok = TRUE THEN hist[Len(hist)].n + 1
                          ELSE hist[Len(hist)].n))

(* C17: in process_audio_files and process_numeric_directories, once the     *)
(* counter has advanced past n the path sample_<n>.wav is never written      *)
(* again in the pass: every step writes at most sample_<counter>.wav, the    *)
(* counter never decreases, a successful output takes the next number and    *)
(* the number of a failed attempt is used again by the next sample.          *)
C17_CountedOutputNeverRewritten ==
    /\ [][CountingWalker =>
            /\ WritesOnlyAtCounter
            /\ sample_count' \in {sample_count, sample_count + 1}]_vars
    /\ [](CountingWalker => NumberingFollowsResults)

C17_Witness ==
    /\ walker = [fn |-> "process_audio_files", mode |-> "combine"]
    /\ wpc = "done"
    /\ Len(hist) = 3
    /\ hist[1].ok = TRUE /\ hist[2].ok = FALSE /\ hist[3].ok = TRUE
    /\ hist[2].n = 2 /\ hist[3].n = 2
    /\ IsWav(dest["main"][1]) /\ IsWav(dest["main"][2])
    /\ Len(dest["main"][2].data) > 0

----------------------------------------------------------------------------
\* entry i is the n-th sample directory of the traversal
NthQualifying(i, n) ==
    Qualifies(i) /\ Cardinality({j \in 1..i : Qualifies(j)}) = n

\* the pass has written sample_<n>.wav of directory d from entry i, file f
WrittenFrom(d, n, i, f) ==
    /\ dest[d][n] = f
    /\ \E k \in 1..Len(hist) : hist[k] = Record(i, d, n, TRUE)
    /\ \A k \in 1..Len(hist) :
          (hist[k].dir = d /\ hist[k].n = n /\ hist[k].ok = TRUE) => hist[k].item = i

(* C18: in the shared dGSLM/moshi traversal of process_turntaking_models     *)
(* (target directories empty at the start), whenever sample_<n>.wav exists   *)
(* under both dGSLM and moshi, both files were copied from the same sample   *)
(* directory, the n-th sample directory of the traversal.                    *)
C18_SameNumberSameSource ==
    walker.fn = "process_turntaking_models:dgslm_moshi" =>
        \A n \in 1..Len(dest[TargetDgslmDir]) :
            (dest[TargetDgslmDir][n] # NoFile /\ dest[TargetMoshiDir][n] # NoFile) =>
                \E i \in 1..Len(items) :
                    /\ NthQualifying(i, n)
                    /\ WrittenFrom(TargetDgslmDir, n, i, items[i].first)
                    /\ WrittenFrom(TargetMoshiDir, n, i, items[i].second)

C18_Witness ==
    /\ walker.fn = "process_turntaking_models:dgslm_moshi"
    /\ wpc = "done"
    /\ dest["main"][1] # NoFile /\ dest["moshi"][1] = NoFile
    /\ dest["main"][2] = NoFile /\ dest["moshi"][2] # NoFile
    /\ dest["main"][3] # NoFile /\ dest["moshi"][3] # NoFile

====
